---- MODULE Spec2Model ----
(***************************************************************************)
(* Footfall ingestion, derived metrics and alerting of the retail          *)
(* monitoring backend: stores (routes/stores), occupancy samples           *)
(* (models/FootfallData.js, routes/footfall.js) and alerts (models/Alert,  *)
(* routes/alerts).                                                         *)
(*                                                                         *)
(* Every HTTP request is handled by an async Express handler; each `await` *)
(* of a database call is one atomic step of the handler, and steps of      *)
(* different requests interleave.                                          *)
(*                                                                         *)
(* Numbers of a request body are kept in HALF units (raw value 3 stands    *)
(* for 1.5) so that the validators isInt/isFloat have non-integers to      *)
(* reject; validated counts are converted to whole units by ToInt.         *)
(***************************************************************************)
EXTENDS Integers, Sequences, FiniteSets, TLC

\* ------------------------------------------------------------------ bounds
MaxTime    == 2     \* the clock (Date.now) runs over 0..MaxTime
MaxSamples == 2     \* stored samples
MaxAlerts  == 3     \* stored alert records
MaxCount   == 1     \* entryCount / exitCount of a valid payload: 0..MaxCount
MaxTills   == 2     \* tills of a payload are numbered 1..MaxTills
MaxLen     == 3     \* till lists given to calculateQueueMetrics

Users    == {"u1", "u2"}
StoreIds == {"s1", "s2"}
Procs    == {"p1", "p2"}

Max0(n) == IF n > 0 THEN n ELSE 0

RECURSIVE SumSeq(_)
SumSeq(s) == IF s = <<>> THEN 0 ELSE Head(s) + SumSeq(Tail(s))

\* ------------------------------------------------------- request payloads
Statuses == {"active", "inactive", "maintenance"}

Till(n, q, s, st) ==
  [tillNumber |-> n, queueLength |-> q, avgServiceTime |-> s, status |-> st]

\* raw body numbers, in half units: -2 is -1, 1 is 0.5, 2k is k
RawCounts == {-2, 1} \cup {2 * k : k \in 0..MaxCount}
RawRates  == {-1, 6}

\* express-validator isInt({min}) / isFloat({min}) on a half-unit raw value
IsInt(raw, min)   == raw % 2 = 0 /\ raw \div 2 >= min
IsFloat(raw, min) == raw >= 2 * min
ToInt(raw)        == raw \div 2

\* till lists of a payload: tills 1..n in order, each idle or with a long queue
TillChoices == {Till(0, 0, 3, "active"), Till(0, 12, 3, "active"),
                Till(0, 12, 2, "inactive")}

TillLists ==
  UNION {{[i \in 1..n |-> [f[i] EXCEPT !.tillNumber = i]] :
            f \in [1..n -> TillChoices]} : n \in 0..MaxTills}

\* a body may carry fields that the handler does not read, such as an
\* occupancy of the caller's own (0 when the body has none)
BodyOccupancies == {-3, 0, MaxCount * MaxSamples + 1}

Payloads ==
  [storeId : StoreIds \cup {""}, entryCount : RawCounts, exitCount : RawCounts,
   posRate : RawRates, hasQueueData : BOOLEAN, tillQueues : TillLists,
   currentOccupancy : BodyOccupancies]

NoPayload ==
  [storeId |-> "", entryCount |-> 0, exitCount |-> 0, posRate |-> 0,
   hasQueueData |-> FALSE, tillQueues |-> <<>>, currentOccupancy |-> 0]

\* ------------------------------------------------------------------ state
VARIABLES
  tz,        \* the server's local time, in minutes east of UTC
  now,       \* Date.now(), in minutes
  stores,    \* Store collection: set of [storeId, owner, isActive, storeName]
  samples,   \* FootfallData collection, in insertion order
  alerts,    \* Alert collection, in insertion order
  req,       \* per handler: the request in flight and the handler's position
  resp       \* per handler: the last response sent

vars == <<tz, now, stores, samples, alerts, req, resp>>

\* ------------------------------------------------------- Store collection
\* a store lookup that forgets the owner
FindActiveStore_AnyOwner(S, storeId, owner) ==
  {st \in S : st.storeId = storeId /\ st.isActive}

\* Store.findOne({storeId, owner, isActive: true})
FindActiveStore(S, storeId, owner) ==
  {st \in S : st.storeId = storeId /\ st.owner = owner /\ st.isActive}

\* Store.findOne({storeId, owner})
FindStore(S, storeId, owner) ==
  {st \in S : st.storeId = storeId /\ st.owner = owner}

\* a Store collection without the unique index
UniqueStoreId_Off(S, storeId) == TRUE

\* the unique index of StoreSchema.storeId: a save of a new store is refused
\* when any record, of any owner, already has the storeId
UniqueStoreId(S, storeId) == \A st \in S : st.storeId # storeId

\* -------------------------------------------------- FootfallData documents
NoDoc ==
  [storeId |-> "", owner |-> "", timestamp |-> 0, entryCount |-> 0,
   exitCount |-> 0, currentOccupancy |-> 0, posRate |-> 0,
   tillQueues |-> <<>>, dataType |-> "realtime"]

\* new FootfallData({...}): timestamp defaults to Date.now, dataType to
\* 'realtime', currentOccupancy to 0; the payload's own occupancy is not read
NewFootfallData(pl, owner, t) ==
  [storeId |-> pl.storeId, owner |-> owner, timestamp |-> t,
   entryCount |-> ToInt(pl.entryCount), exitCount |-> ToInt(pl.exitCount),
   currentOccupancy |-> 0, posRate |-> pl.posRate,
   tillQueues |-> pl.tillQueues, dataType |-> "realtime"]

\* a lookup with $lte in place of $lt
LatestBefore_OrEqual(L, storeId, t) ==
  LET C == {i \in 1..Len(L) : L[i].storeId = storeId /\ L[i].timestamp <= t}
  IN  {L[i] : i \in {j \in C : \A k \in C : L[k].timestamp <= L[j].timestamp}}

\* findOne({storeId, timestamp: {$lt: t}}).sort({timestamp: -1}): the samples
\* the query may return; the order among equal timestamps is not defined
LatestBefore(L, storeId, t) ==
  LET C == {i \in 1..Len(L) : L[i].storeId = storeId /\ L[i].timestamp < t}
  IN  {L[i] : i \in {j \in C : \A k \in C : L[k].timestamp <= L[j].timestamp}}

\* what the collection keeps of a saved document: the fields that a hook or a
\* handler reads back from the collection (the till list of a request is read
\* from the request's own document only)
Stored(doc) ==
  [storeId |-> doc.storeId, owner |-> doc.owner, timestamp |-> doc.timestamp,
   entryCount |-> doc.entryCount, exitCount |-> doc.exitCount,
   currentOccupancy |-> doc.currentOccupancy, posRate |-> doc.posRate,
   dataType |-> doc.dataType]

\* a pre('save') without Math.max
Occupancy_NoClamp(found, latestOcc, entryCount, exitCount) ==
  IF found THEN latestOcc + entryCount - exitCount
           ELSE entryCount - exitCount

\* a pre('save') that forgets the earlier sample
Occupancy_NoPrior(found, latestOcc, entryCount, exitCount) ==
  Max0(entryCount - exitCount)

\* pre('save'): the occupancy of a new document, given what findOne returned
Occupancy(found, latestOcc, entryCount, exitCount) ==
  IF found THEN Max0(latestOcc + entryCount - exitCount)
           ELSE Max0(entryCount - exitCount)

\* the documents pre('save') can produce for doc against the collection L
PreSave(L, doc) ==
  LET prior == LatestBefore(L, doc.storeId, doc.timestamp)
  IN  IF prior = {}
      THEN {[doc EXCEPT !.currentOccupancy =
               Occupancy(FALSE, 0, doc.entryCount, doc.exitCount)]}
      ELSE {[doc EXCEPT !.currentOccupancy =
               Occupancy(TRUE, l.currentOccupancy, doc.entryCount, doc.exitCount)]
              : l \in prior}

\* ----------------------------------------------------------- queue metrics
ActiveTills(tills) == SelectSeq(tills, LAMBDA t : t.status = "active")

\* Math.round(x * 100) / 100 of x = num / den (den > 0), in hundredths;
\* Math.round rounds halves towards +infinity
Round2(num, den) == (200 * num + den) \div (2 * den)

\* queue metrics that forget to filter on status
calculateQueueMetrics_AllTills(hasQueueData, tills) ==
  IF ~hasQueueData
  THEN [totalQueue |-> 0, avgWaitTime |-> 0, activeTills |-> 0]
  ELSE LET tq == SumSeq([i \in 1..Len(tills) |-> tills[i].queueLength])
           ws == SumSeq([i \in 1..Len(tills) |->
                           tills[i].avgServiceTime * tills[i].queueLength])
       IN  [totalQueue  |-> tq,
            avgWaitTime |-> IF Len(tills) > 0 THEN Round2(ws, Len(tills)) ELSE 0,
            activeTills |-> Len(tills)]

\* calculateQueueMetrics; avgWaitTime is held in hundredths
calculateQueueMetrics(hasQueueData, tills) ==
  IF ~hasQueueData
  THEN [totalQueue |-> 0, avgWaitTime |-> 0, activeTills |-> 0]
  ELSE LET act == ActiveTills(tills)
           tq  == SumSeq([i \in 1..Len(act) |-> act[i].queueLength])
           ws  == SumSeq([i \in 1..Len(act) |->
                            act[i].avgServiceTime * act[i].queueLength])
       IN  [totalQueue  |-> tq,
            avgWaitTime |-> IF Len(act) > 0 THEN Round2(ws, Len(act)) ELSE 0,
            activeTills |-> Len(act)]

\* ------------------------------------------------------------------ alerts
\* thresholds of the synthesis policies
StaffQueueCritical == 20
StaffQueueHigh     == 10
StaffWaitMedium    == 1500   \* average wait, in hundredths
StaffOccupancyHigh == 100
QueueAlertThreshold == 10
QueueWaitHigh      == 30

IsOpen(a) == ~a.isAcknowledged /\ ~a.isResolved

\* severity band of a staffing alert; "none" raises nothing
StaffingSeverity(d) ==
  IF d.queueLength > StaffQueueCritical THEN "critical"
  ELSE IF d.queueLength > StaffQueueHigh
            \/ d.currentOccupancy > StaffOccupancyHigh THEN "high"
  ELSE IF d.avgWaitTime > StaffWaitMedium THEN "medium"
  ELSE "none"

\* severity band of the queue alert of one till; "none" raises nothing
QueueSeverity(d) ==
  IF d.queueLength <= QueueAlertThreshold THEN "none"
  ELSE IF d.avgWaitTime > QueueWaitHigh THEN "high"
  ELSE "medium"

OpenAlerts(A, storeId, alertType, tillNumber) ==
  {i \in 1..Len(A) : /\ A[i].storeId = storeId
                     /\ A[i].alertType = alertType
                     /\ A[i].tillNumber = tillNumber
                     /\ IsOpen(A[i])}

\* a synthesis that never looks for the open alert
UpsertAlert_AlwaysCreate(A, storeId, owner, alertType, tillNumber, severity) ==
  Append(A, [storeId |-> storeId, owner |-> owner,
             alertType |-> alertType, tillNumber |-> tillNumber,
             severity |-> severity, isAcknowledged |-> FALSE,
             isResolved |-> FALSE])

\* a synthesis that reopens a closed alert of the scope when none is open
UpsertAlert_Reopen(A, storeId, owner, alertType, tillNumber, severity) ==
  LET scope  == {i \in 1..Len(A) : /\ A[i].storeId = storeId
                                    /\ A[i].alertType = alertType
                                    /\ A[i].tillNumber = tillNumber}
  IN  IF scope # {}
      THEN LET i == CHOOSE j \in scope : \A k \in scope : j <= k
           IN  [A EXCEPT ![i].severity = severity,
                         ![i].isAcknowledged = FALSE, ![i].isResolved = FALSE]
      ELSE Append(A, [storeId |-> storeId, owner |-> owner,
                      alertType |-> alertType, tillNumber |-> tillNumber,
                      severity |-> severity, isAcknowledged |-> FALSE,
                      isResolved |-> FALSE])

\* atomic find-open-or-create of the alert of one scope
UpsertAlert(A, storeId, owner, alertType, tillNumber, severity) ==
  LET open == OpenAlerts(A, storeId, alertType, tillNumber)
  IN  IF open # {}
      THEN LET i == CHOOSE j \in open : \A k \in open : j <= k
           IN  [A EXCEPT ![i].severity = severity]
      ELSE Append(A, [storeId |-> storeId, owner |-> owner,
                      alertType |-> alertType, tillNumber |-> tillNumber,
                      severity |-> severity, isAcknowledged |-> FALSE,
                      isResolved |-> FALSE])

\* a staffing synthesis that resolves the open alert of the store when the
\* metrics warrant none
createStaffingAlert_AutoResolve(A, storeId, owner, d) ==
  IF StaffingSeverity(d) = "none"
  THEN [i \in 1..Len(A) |->
          IF i \in OpenAlerts(A, storeId, "staffing", 0)
          THEN [A[i] EXCEPT !.isResolved = TRUE] ELSE A[i]]
  ELSE UpsertAlert(A, storeId, owner, "staffing", 0, StaffingSeverity(d))

\* Alert.createStaffingAlert(storeId, owner, alertData); till scope 0 = store
createStaffingAlert(A, storeId, owner, d) ==
  IF StaffingSeverity(d) = "none" THEN A
  ELSE UpsertAlert(A, storeId, owner, "staffing", 0, StaffingSeverity(d))

\* Alert.createQueueAlert(storeId, owner, {queueLength, tillNumber, avgWaitTime})
createQueueAlert(A, storeId, owner, d) ==
  IF QueueSeverity(d) = "none" THEN A
  ELSE UpsertAlert(A, storeId, owner, "queue", d.tillNumber, QueueSeverity(d))

\* ------------------------------------------------- requests and responses
\* the alertData of a request that has not called the staffing synthesis
NoAlertData ==
  [queueLength |-> 0, avgWaitTime |-> 0, currentOccupancy |-> 0, posRate |-> 0]

\* req[p]: the request handler p works on, where the handler stands (pc), and
\* a record of what it has done so far, kept after the response is sent:
\* alertData and queueCalls are the arguments of its synthesis calls
NoReq ==
  [op |-> "none", caller |-> "", payload |-> NoPayload, storeId |-> "",
   minutes |-> 0, period |-> "", groupBy |-> "", pc |-> "idle",
   doc |-> NoDoc, till |-> 0, class |-> "none", valid |-> TRUE, saved |-> FALSE, staffed |-> "no",
   tills |-> 0, attempted |-> <<>>, storeName |-> "",
   alertData |-> NoAlertData, queueCalls |-> <<>>]

\* a handler that has answered keeps the record only
Done(r) ==
  [r EXCEPT !.pc = "done", !.payload = NoPayload, !.doc = NoDoc, !.till = 0]

NoMetrics == [totalQueue |-> 0, avgWaitTime |-> 0, activeTills |-> 0]

\* the zero-filled data of GET /window
ZeroStats(windowMinutes) ==
  [windowMinutes |-> windowMinutes, totalEntries |-> 0, totalExits |-> 0,
   avgPosRate |-> 0, avgOccupancy |-> 0, maxOccupancy |-> 0, dataPoints |-> 0,
   latestOccupancy |-> 0]

NoStats == ZeroStats(0)

Response(status, message) ==
  [status |-> status, message |-> message, rows |-> <<>>,
   currentOccupancy |-> 0, queueMetrics |-> NoMetrics, stats |-> NoStats,
   buckets |-> <<>>]

NoResp == Response(0, "")

ValidationErrors == Response(400, "Validation errors")
NotFoundOrDenied == Response(404, "Store not found or access denied")
IngestError      == Response(500, "Server error while ingesting footfall data")

Free(p) == req[p].pc \in {"idle", "done"}

\* what the Store collection holds for (storeId, caller) when a handler looks
StoreClass(S, storeId, caller) ==
  IF \E st \in S : st.storeId = storeId /\ st.owner = caller /\ st.isActive
    THEN "own"
  ELSE IF \E st \in S : st.storeId = storeId /\ st.owner = caller
    THEN "inactive"
  ELSE IF \E st \in S : st.storeId = storeId THEN "foreign"
  ELSE "absent"

\* a body as the interface asks for it: a store id, whole counts that are not
\* negative, a POS rate that is not negative (numbers in half units)
WellFormed(pl) ==
  /\ pl.storeId # ""
  /\ \E k \in 0..pl.entryCount : pl.entryCount = 2 * k
  /\ \E k \in 0..pl.exitCount : pl.exitCount = 2 * k
  /\ pl.posRate >= 0

\* a validation chain without the checks of the counts
ValidIngest_NoCounts(pl) ==
  /\ pl.storeId # ""
  /\ IsFloat(pl.posRate, 0)

\* the express-validator chain of POST /ingest
ValidIngest(pl) ==
  /\ pl.storeId # ""
  /\ IsInt(pl.entryCount, 0)
  /\ IsInt(pl.exitCount, 0)
  /\ IsFloat(pl.posRate, 0)

\* a loop over the active tills only
LoopTills_ActiveOnly(pl) ==
  IF pl.hasQueueData THEN ActiveTills(pl.tillQueues) ELSE <<>>

\* the tills the handler loops over: queueData && queueData.tillQueues
LoopTills(pl) == IF pl.hasQueueData THEN pl.tillQueues ELSE <<>>

\* ----------------------------------------------------------- POST /ingest
\* validation, Store.findOne, new FootfallData(...)
IngestBegin(p, c, pl) ==
  /\ Free(p)
  /\ LET r == [NoReq EXCEPT !.op = "ingest", !.caller = c, !.payload = pl,
                            !.storeId = pl.storeId,
                            !.tills = Len(LoopTills(pl)),
                            !.class = StoreClass(stores, pl.storeId, c),
                            !.valid = WellFormed(pl)]
     IN  IF ~ValidIngest(pl)
         THEN /\ req'  = [req EXCEPT ![p] = Done(r)]
              /\ resp' = [resp EXCEPT ![p] = ValidationErrors]
         ELSE IF FindActiveStore(stores, pl.storeId, c) = {}
         THEN /\ req'  = [req EXCEPT ![p] = Done(r)]
              /\ resp' = [resp EXCEPT ![p] = NotFoundOrDenied]
         ELSE /\ req'  = [req EXCEPT ![p] =
                            [r EXCEPT !.pc = "presave",
                                      !.doc = NewFootfallData(pl, c, now)]]
              /\ resp' = [resp EXCEPT ![p] = NoResp]
  /\ UNCHANGED <<tz, now, stores, samples, alerts>>

\* footfallData.save(), first half: the findOne of pre('save')
IngestPreSave(p) ==
  /\ req[p].pc = "presave"
  /\ \E d \in PreSave(samples, req[p].doc) :
       req' = [req EXCEPT ![p].doc = d, ![p].pc = "insert"]
  /\ UNCHANGED <<tz, now, stores, samples, alerts, resp>>

\* an insert that also adds the new counts to the later samples of the store
IngestInsert_Recompute(p) ==
  /\ req[p].pc = "insert"
  /\ Len(samples) < MaxSamples
  /\ samples' =
       Append([i \in 1..Len(samples) |->
                 IF /\ samples[i].storeId = req[p].doc.storeId
                    /\ samples[i].timestamp > req[p].doc.timestamp
                 THEN [samples[i] EXCEPT !.currentOccupancy =
                         Max0(@ + req[p].doc.entryCount - req[p].doc.exitCount)]
                 ELSE samples[i]],
              Stored(req[p].doc))
  /\ req' = [req EXCEPT ![p].pc = "staffing", ![p].saved = TRUE]
  /\ UNCHANGED <<tz, now, stores, alerts, resp>>

\* footfallData.save(), second half: the insert
IngestInsert(p) ==
  /\ req[p].pc = "insert"
  /\ Len(samples) < MaxSamples
  /\ samples' = Append(samples, Stored(req[p].doc))
  /\ req' = [req EXCEPT ![p].pc = "staffing", ![p].saved = TRUE]
  /\ UNCHANGED <<tz, now, stores, alerts, resp>>

\* a handler that goes on to the alert synthesis after a save that rejected
IngestInsertFail_Continue(p) ==
  /\ req[p].pc = "insert"
  /\ req'  = [req EXCEPT ![p].pc = "staffing"]
  /\ UNCHANGED <<tz, now, stores, samples, alerts, resp>>

\* footfallData.save() rejects: the catch block answers 500
IngestInsertFail(p) ==
  /\ req[p].pc = "insert"
  /\ req'  = [req EXCEPT ![p] = Done(req[p])]
  /\ resp' = [resp EXCEPT ![p] = IngestError]
  /\ UNCHANGED <<tz, now, stores, samples, alerts>>

\* a 201 response without the queue metrics
IngestCreated_NoMetrics(r) ==
  [Response(201, "Footfall data ingested successfully")
     EXCEPT !.currentOccupancy = r.doc.currentOccupancy]

\* the 201 response: the saved document and its queue metrics
IngestCreated(r) ==
  [Response(201, "Footfall data ingested successfully")
     EXCEPT !.currentOccupancy = r.doc.currentOccupancy,
            !.queueMetrics = calculateQueueMetrics(TRUE, r.doc.tillQueues)]

\* calculateQueueMetrics, alertData, await Alert.createStaffingAlert(...)
IngestStaffing(p) ==
  /\ req[p].pc = "staffing"
  /\ LET r  == req[p]
         qm == calculateQueueMetrics(TRUE, r.doc.tillQueues)
         d  == [queueLength |-> qm.totalQueue, avgWaitTime |-> qm.avgWaitTime,
                currentOccupancy |-> r.doc.currentOccupancy,
                posRate |-> r.doc.posRate]
     IN  /\ alerts' = createStaffingAlert(alerts, r.storeId, r.caller, d)
         /\ Len(alerts') <= MaxAlerts
         /\ IF LoopTills(r.payload) = <<>>
            THEN /\ req'  = [req EXCEPT ![p] = Done([r EXCEPT !.staffed = "ok",
                                                              !.alertData = d])]
                 /\ resp' = [resp EXCEPT ![p] = IngestCreated(r)]
            ELSE /\ req'  = [req EXCEPT ![p].staffed = "ok",
                                        ![p].alertData = d,
                                        ![p].pc = "queue", ![p].till = 1]
                 /\ resp' = resp
  /\ UNCHANGED <<tz, now, stores, samples>>

\* a catch block that takes back the sample of the request
IngestStaffingFail_Rollback(p) ==
  /\ req[p].pc = "staffing"
  /\ samples' = SubSeq(samples, 1, Len(samples) - 1)
  /\ req'  = [req EXCEPT ![p] = Done([req[p] EXCEPT !.staffed = "failed"])]
  /\ resp' = [resp EXCEPT ![p] = IngestError]
  /\ UNCHANGED <<tz, now, stores, alerts>>

\* Alert.createStaffingAlert rejects: the catch block answers 500
IngestStaffingFail(p) ==
  /\ req[p].pc = "staffing"
  /\ req'  = [req EXCEPT ![p] = Done([req[p] EXCEPT !.staffed = "failed"])]
  /\ resp' = [resp EXCEPT ![p] = IngestError]
  /\ UNCHANGED <<tz, now, stores, samples, alerts>>

\* one round of the for loop: await Alert.createQueueAlert(...) of one till
IngestQueue(p) ==
  /\ req[p].pc = "queue"
  /\ LET r     == req[p]
         tills == LoopTills(r.payload)
         till  == tills[r.till]
         d     == [queueLength |-> till.queueLength,
                   tillNumber  |-> till.tillNumber,
                   avgWaitTime |-> till.avgServiceTime * till.queueLength]
         r1    == [r EXCEPT !.attempted = Append(@, till.tillNumber),
                            !.queueCalls = Append(@, d)]
     IN  /\ alerts' = createQueueAlert(alerts, r.storeId, r.caller, d)
         /\ Len(alerts') <= MaxAlerts
         /\ IF r.till = Len(tills)
            THEN /\ req'  = [req EXCEPT ![p] = Done(r1)]
                 /\ resp' = [resp EXCEPT ![p] = IngestCreated(r)]
            ELSE /\ req'  = [req EXCEPT ![p] = [r1 EXCEPT !.till = @ + 1]]
                 /\ resp' = resp
  /\ UNCHANGED <<tz, now, stores, samples>>

\* Alert.createQueueAlert rejects: the loop is left, the catch block answers 500
IngestQueueFail(p) ==
  /\ req[p].pc = "queue"
  /\ LET till == LoopTills(req[p].payload)[req[p].till]
         d    == [queueLength |-> till.queueLength,
                  tillNumber  |-> till.tillNumber,
                  avgWaitTime |-> till.avgServiceTime * till.queueLength]
     IN  req' = [req EXCEPT ![p] =
                   Done([req[p] EXCEPT !.attempted = Append(@, till.tillNumber),
                                       !.queueCalls = Append(@, d)])]
  /\ resp' = [resp EXCEPT ![p] = IngestError]
  /\ UNCHANGED <<tz, now, stores, samples, alerts>>

\* ------------------------------------------------------------ GET queries
QueryOps == {"latest", "window", "history", "analytics"}

HourMinutes == 60
DayMinutes  == 24 * HourMinutes
WeekMinutes == 7 * DayMinutes

\* getLatestForStore: findOne({storeId, dataType: 'realtime'}).sort({timestamp: -1})
getLatestForStore(L, storeId) ==
  LET C == {i \in 1..Len(L) : L[i].storeId = storeId /\ L[i].dataType = "realtime"}
  IN  {L[i] : i \in {j \in C : \A k \in C : L[k].timestamp <= L[j].timestamp}}

\* a $match without the dataType
WindowMatch_AnyType(L, storeId, windowMinutes, t) ==
  SelectSeq(L, LAMBDA x : /\ x.storeId = storeId
                          /\ x.timestamp >= t - windowMinutes)

\* the $match of getWindowStats: storeId, timestamp >= windowStart, realtime
WindowMatch(L, storeId, windowMinutes, t) ==
  SelectSeq(L, LAMBDA x : /\ x.storeId = storeId
                          /\ x.timestamp >= t - windowMinutes
                          /\ x.dataType = "realtime")

\* $avg of a group of n documents, in hundredths (the fraction is cut off)
Avg100(sum, n) == (100 * sum) \div n

\* the documents that can reach $group last, for $last: the pipeline has no
\* $sort, so the order is the plan's: the collection in insertion order, or
\* the index {storeId: 1, dataType: 1, timestamp: -1} with the oldest
\* timestamp last
WindowLast(rows) ==
  {rows[Len(rows)]}
  \cup {rows[i] : i \in {j \in 1..Len(rows) :
                           \A k \in 1..Len(rows) :
                             rows[j].timestamp <= rows[k].timestamp}}

\* the $group of getWindowStats over the matched rows, given the last one
WindowGroup(rows, last) ==
  LET n == Len(rows)
  IN  [totalEntries   |-> SumSeq([i \in 1..n |-> rows[i].entryCount]),
       totalExits     |-> SumSeq([i \in 1..n |-> rows[i].exitCount]),
       avgPosRate     |-> Avg100(SumSeq([i \in 1..n |-> rows[i].posRate]), n),
       avgOccupancy   |-> Avg100(SumSeq([i \in 1..n |-> rows[i].currentOccupancy]), n),
       maxOccupancy   |-> CHOOSE m \in {rows[i].currentOccupancy : i \in 1..n} :
                            \A i \in 1..n : rows[i].currentOccupancy <= m,
       dataPoints     |-> n,
       latestOccupancy |-> last.currentOccupancy]

\* getWindowStats: the arrays the aggregation can return, empty when no
\* document matches
getWindowStats(L, storeId, windowMinutes, t) ==
  LET rows == WindowMatch(L, storeId, windowMinutes, t)
  IN  IF rows = <<>> THEN {<<>>}
      ELSE {<<WindowGroup(rows, last)>> : last \in WindowLast(rows)}

\* a handler of GET /window that spreads windowStats[0] whatever the array
WindowData_NoZeroFill(windowMinutes, windowStats) ==
  IF windowStats = <<>>
  THEN [ZeroStats(windowMinutes) EXCEPT !.dataPoints = -1]
  ELSE [windowMinutes |-> windowMinutes] @@ windowStats[1]

\* the data of the GET /window response: zero-filled when the array is empty,
\* else {windowMinutes, ...windowStats[0]}
WindowData(windowMinutes, windowStats) ==
  IF windowStats = <<>>
  THEN ZeroStats(windowMinutes)
  ELSE [windowMinutes |-> windowMinutes] @@ windowStats[1]

\* the query of GET /history: storeId, dataType (default realtime), owner
HistoryMatch(L, storeId, owner) ==
  SelectSeq(L, LAMBDA x : /\ x.storeId = storeId
                          /\ x.dataType = "realtime"
                          /\ x.owner = owner)

\* new Date(now.getFullYear(), now.getMonth(), now.getDate()): the instant at
\* which the local calendar day of t began, local time being UTC + offset
LocalDayStart(t, offset) == (t + offset) - ((t + offset) % DayMinutes) - offset

\* the date range of GET /analytics for period 'today' and 'week'
PeriodStart(period, t, offset) ==
  IF period = "today" THEN LocalDayStart(t, offset) ELSE t - WeekMinutes
PeriodEnd(period, t, offset) ==
  IF period = "today" THEN LocalDayStart(t, offset) + DayMinutes ELSE t

\* the $match of GET /analytics: storeId, [startDate, endDate), realtime, owner
AnalyticsMatch(L, storeId, owner, period, t, offset) ==
  SelectSeq(L, LAMBDA x : /\ x.storeId = storeId
                          /\ x.timestamp >= PeriodStart(period, t, offset)
                          /\ x.timestamp < PeriodEnd(period, t, offset)
                          /\ x.dataType = "realtime"
                          /\ x.owner = owner)

\* the _id of the $group of GET /analytics: $year, $month and $dayOfMonth of
\* the timestamp (held together as the number of the UTC day) and, when the
\* rows are grouped by hour, its $hour; all four read the timestamp in UTC
GroupKey(groupBy, timestamp) ==
  [day  |-> timestamp \div DayMinutes,
   hour |-> IF groupBy = "hour"
            THEN (timestamp % DayMinutes) \div HourMinutes ELSE 0]

\* a $sort with -1 for every field
KeyBefore_Descending(a, b) == a.day > b.day \/ (a.day = b.day /\ a.hour > b.hour)

KeyBefore(a, b) == a.day < b.day \/ (a.day = b.day /\ a.hour < b.hour)

\* $sort: {'_id.year': 1, '_id.month': 1, '_id.day': 1, '_id.hour': 1}
RECURSIVE SortKeys(_)
SortKeys(K) ==
  IF K = {} THEN <<>>
  ELSE LET m == CHOOSE a \in K : \A b \in K \ {a} : KeyBefore(a, b)
       IN  <<m>> \o SortKeys(K \ {m})

\* the $group and $sort of GET /analytics over the matched rows (the average
\* queue length reads a field that Stored does not keep)
AnalyticsBuckets(rows, groupBy) ==
  LET keys == SortKeys({GroupKey(groupBy, rows[i].timestamp) : i \in 1..Len(rows)})
      grp(k) == SelectSeq(rows, LAMBDA x : GroupKey(groupBy, x.timestamp) = k)
  IN  [j \in 1..Len(keys) |->
         LET g == grp(keys[j])
             n == Len(g)
         IN  [key          |-> keys[j],
              totalEntries |-> SumSeq([i \in 1..n |-> g[i].entryCount]),
              totalExits   |-> SumSeq([i \in 1..n |-> g[i].exitCount]),
              avgPosRate   |-> Avg100(SumSeq([i \in 1..n |-> g[i].posRate]), n),
              avgOccupancy |-> Avg100(SumSeq([i \in 1..n |-> g[i].currentOccupancy]), n),
              maxOccupancy |-> CHOOSE m \in {g[i].currentOccupancy : i \in 1..n} :
                                 \A i \in 1..n : g[i].currentOccupancy <= m,
              dataPoints   |-> n]]

\* validation (nothing to reject here) and Store.findOne of a GET handler
QueryBegin(p, c, op, s, w, per, g) ==
  /\ Free(p)
  /\ LET r == [NoReq EXCEPT !.op = op, !.caller = c, !.storeId = s,
                            !.minutes = w, !.period = per, !.groupBy = g,
                            !.class = StoreClass(stores, s, c)]
     IN  IF FindActiveStore(stores, s, c) = {}
         THEN /\ req'  = [req EXCEPT ![p] = Done(r)]
              /\ resp' = [resp EXCEPT ![p] = NotFoundOrDenied]
         ELSE /\ req'  = [req EXCEPT ![p] = [r EXCEPT !.pc = "read"]]
              /\ resp' = [resp EXCEPT ![p] = NoResp]
  /\ UNCHANGED <<tz, now, stores, samples, alerts>>

\* the rows the FootfallData read of a GET handler can return
QueryRows(r, L, t) ==
  IF r.op = "latest"
    THEN IF getLatestForStore(L, r.storeId) = {} THEN {<<>>}
         ELSE {<<x>> : x \in getLatestForStore(L, r.storeId)}
  ELSE IF r.op = "window" THEN {WindowMatch(L, r.storeId, r.minutes, t)}
  ELSE IF r.op = "history" THEN {HistoryMatch(L, r.storeId, r.caller)}
  ELSE {AnalyticsMatch(L, r.storeId, r.caller, r.period, t, tz)}

\* the FootfallData read of a GET handler and its response
QueryRead(p) ==
  /\ req[p].pc = "read"
  /\ \E rows \in QueryRows(req[p], samples, now),
        ws \in getWindowStats(samples, req[p].storeId, req[p].minutes, now) :
       resp' = [resp EXCEPT ![p] =
                  IF req[p].op = "latest" /\ rows = <<>>
                  THEN Response(404, "No footfall data found for this store")
                  ELSE IF req[p].op = "window"
                  THEN [Response(200, "") EXCEPT
                          !.rows = rows,
                          !.stats = WindowData(req[p].minutes, ws)]
                  ELSE IF req[p].op = "analytics"
                  THEN [Response(200, "") EXCEPT
                          !.rows = rows,
                          !.buckets = AnalyticsBuckets(rows, req[p].groupBy)]
                  ELSE [Response(200, "") EXCEPT !.rows = rows]]
  /\ req' = [req EXCEPT ![p] = Done(req[p])]
  /\ UNCHANGED <<tz, now, stores, samples, alerts>>

\* ------------------------------------------------------------- /api/stores
\* POST /api/stores: Store.findOne({storeId, owner}) of the duplicate check
StoreCreateBegin(p, c, s) ==
  /\ Free(p)
  /\ LET r == [NoReq EXCEPT !.op = "createStore", !.caller = c, !.storeId = s,
                            !.storeName = "a",
                            !.class = StoreClass(stores, s, c)]
     IN  IF FindStore(stores, s, c) # {}
         THEN /\ req'  = [req EXCEPT ![p] = Done(r)]
              /\ resp' = [resp EXCEPT ![p] =
                            Response(400, "Store with this ID already exists")]
         ELSE /\ req'  = [req EXCEPT ![p] = [r EXCEPT !.pc = "storeSave"]]
              /\ resp' = [resp EXCEPT ![p] = NoResp]
  /\ UNCHANGED <<tz, now, stores, samples, alerts>>

\* POST /api/stores: store.save(), refused by the unique index on storeId
StoreCreateSave(p) ==
  /\ req[p].pc = "storeSave"
  /\ IF UniqueStoreId(stores, req[p].storeId)
     THEN /\ stores' = stores \cup {[storeId |-> req[p].storeId,
                                     owner |-> req[p].caller,
                                     isActive |-> TRUE,
                                     storeName |-> req[p].storeName]}
          /\ resp' = [resp EXCEPT ![p] =
                        Response(201, "Store created successfully")]
     ELSE /\ stores' = stores
          /\ resp' = [resp EXCEPT ![p] =
                        Response(500, "Server error while creating store")]
  /\ req' = [req EXCEPT ![p] = Done(req[p])]
  /\ UNCHANGED <<tz, now, samples, alerts>>

\* DELETE /api/stores/:storeId: Store.findOne({storeId, owner})
StoreDeleteBegin(p, c, s) ==
  /\ Free(p)
  /\ LET r == [NoReq EXCEPT !.op = "deleteStore", !.caller = c, !.storeId = s,
                            !.class = StoreClass(stores, s, c)]
     IN  IF FindStore(stores, s, c) = {}
         THEN /\ req'  = [req EXCEPT ![p] = Done(r)]
              /\ resp' = [resp EXCEPT ![p] = Response(404, "Store not found")]
         ELSE /\ req'  = [req EXCEPT ![p] = [r EXCEPT !.pc = "storeDelete"]]
              /\ resp' = [resp EXCEPT ![p] = NoResp]
  /\ UNCHANGED <<tz, now, stores, samples, alerts>>

\* PUT /api/stores/:storeId: validation and Store.findOne({storeId, owner})
StoreUpdateBegin(p, c, s, name) ==
  /\ Free(p)
  /\ LET r == [NoReq EXCEPT !.op = "updateStore", !.caller = c, !.storeId = s,
                            !.storeName = name,
                            !.class = StoreClass(stores, s, c)]
     IN  IF name = ""
         THEN /\ req'  = [req EXCEPT ![p] = Done(r)]
              /\ resp' = [resp EXCEPT ![p] = ValidationErrors]
         ELSE IF FindStore(stores, s, c) = {}
         THEN /\ req'  = [req EXCEPT ![p] = Done(r)]
              /\ resp' = [resp EXCEPT ![p] = Response(404, "Store not found")]
         ELSE /\ req'  = [req EXCEPT ![p] = [r EXCEPT !.pc = "storeUpdate"]]
              /\ resp' = [resp EXCEPT ![p] = NoResp]
  /\ UNCHANGED <<tz, now, stores, samples, alerts>>

\* an update that also writes isActive: true
StoreUpdateSave_Reactivate(p) ==
  /\ req[p].pc = "storeUpdate"
  /\ stores' = {IF st.storeId = req[p].storeId /\ st.owner = req[p].caller
                THEN [st EXCEPT !.storeName = req[p].storeName,
                                !.isActive = TRUE]
                ELSE st : st \in stores}
  /\ req'  = [req EXCEPT ![p] = Done(req[p])]
  /\ resp' = [resp EXCEPT ![p] = Response(200, "Store updated successfully")]
  /\ UNCHANGED <<tz, now, samples, alerts>>

\* PUT /api/stores/:storeId: Object.assign(store, updates); store.save(),
\* which writes the assigned fields of the record that was found
StoreUpdateSave(p) ==
  /\ req[p].pc = "storeUpdate"
  /\ stores' = {IF st.storeId = req[p].storeId /\ st.owner = req[p].caller
                THEN [st EXCEPT !.storeName = req[p].storeName] ELSE st : st \in stores}
  /\ req'  = [req EXCEPT ![p] = Done(req[p])]
  /\ resp' = [resp EXCEPT ![p] = Response(200, "Store updated successfully")]
  /\ UNCHANGED <<tz, now, samples, alerts>>

\* a delete that removes the store record
StoreDeleteSave_Remove(p) ==
  /\ req[p].pc = "storeDelete"
  /\ stores' = {st \in stores :
                  ~(st.storeId = req[p].storeId /\ st.owner = req[p].caller)}
  /\ req'  = [req EXCEPT ![p] = Done(req[p])]
  /\ resp' = [resp EXCEPT ![p] = Response(200, "Store deleted successfully")]
  /\ UNCHANGED <<tz, now, samples, alerts>>

\* DELETE /api/stores/:storeId: store.isActive = false; store.save()
StoreDeleteSave(p) ==
  /\ req[p].pc = "storeDelete"
  /\ stores' = {IF st.storeId = req[p].storeId /\ st.owner = req[p].caller
                THEN [st EXCEPT !.isActive = FALSE] ELSE st : st \in stores}
  /\ req'  = [req EXCEPT ![p] = Done(req[p])]
  /\ resp' = [resp EXCEPT ![p] = Response(200, "Store deleted successfully")]
  /\ UNCHANGED <<tz, now, samples, alerts>>

\* ------------------------------------------------------------- /api/alerts
\* PUT /api/alerts/:id/acknowledge by the alert's owner
AcknowledgeAlert(i) ==
  /\ i \in 1..Len(alerts)
  /\ IsOpen(alerts[i])
  /\ alerts' = [alerts EXCEPT ![i].isAcknowledged = TRUE]
  /\ UNCHANGED <<tz, now, stores, samples, req, resp>>

\* PUT /api/alerts/:id/resolve by the alert's owner
ResolveAlert(i) ==
  /\ i \in 1..Len(alerts)
  /\ ~alerts[i].isResolved
  /\ alerts' = [alerts EXCEPT ![i].isResolved = TRUE]
  /\ UNCHANGED <<tz, now, stores, samples, req, resp>>

\* ------------------------------------------------------------------- clock
Tick ==
  /\ now < MaxTime
  /\ now' = now + 1
  /\ UNCHANGED <<tz, stores, samples, alerts, req, resp>>

\* the clock moves on to a later instant
AdvanceTo(t) ==
  /\ now < t
  /\ now' = t
  /\ UNCHANGED <<tz, stores, samples, alerts, req, resp>>

\* ---------------------------------------------------------- specifications
Init ==
  /\ tz = 0
  /\ now = 0
  /\ stores = {}
  /\ samples = <<>>
  /\ alerts = <<>>
  /\ req = [p \in Procs |-> NoReq]
  /\ resp = [p \in Procs |-> NoResp]

\* a payload whose numbers pass validation, with or without queue data
Payload(s, e, x, tills) ==
  [storeId |-> s, entryCount |-> 2 * e, exitCount |-> 2 * x, posRate |-> 6,
   hasQueueData |-> (tills # <<>>), tillQueues |-> tills,
   currentOccupancy |-> 0]

\* one payload per failure of the validation chain, and one valid per store
AccessPayloads ==
  {Payload(s, 1, 0, <<>>) : s \in StoreIds}
  \cup {[Payload("s1", 1, 0, <<>>) EXCEPT !.storeId = ""],
        [Payload("s1", 1, 0, <<>>) EXCEPT !.entryCount = -2],
        [Payload("s1", 1, 0, <<>>) EXCEPT !.entryCount = 1],
        [Payload("s1", 1, 0, <<>>) EXCEPT !.exitCount = -2],
        [Payload("s1", 1, 0, <<>>) EXCEPT !.exitCount = 1],
        [Payload("s1", 1, 0, <<>>) EXCEPT !.posRate = -1]}

\* Spec: the handlers of all routes, one request at a time
Next ==
  \/ \E c \in Users, pl \in AccessPayloads : IngestBegin("p1", c, pl)
  \/ IngestPreSave("p1")
  \/ IngestInsert("p1")
  \/ IngestStaffing("p1")
  \/ \E c \in Users, op \in {"latest", "history"}, s \in StoreIds :
       QueryBegin("p1", c, op, s, 0, "", "")
  \/ \E c \in Users, s \in StoreIds, w \in 1..2 :
       QueryBegin("p1", c, "window", s, w, "", "")
  \/ \E c \in Users, s \in StoreIds, per \in {"today", "week"},
        g \in {"hour", "day"} :
       QueryBegin("p1", c, "analytics", s, 0, per, g)
  \/ QueryRead("p1")
  \/ \E c \in Users, s \in StoreIds : StoreCreateBegin("p1", c, s)
  \/ StoreCreateSave("p1")
  \/ \E c \in Users, s \in StoreIds : StoreDeleteBegin("p1", c, s)
  \/ StoreDeleteSave("p1")

Spec == Init /\ [][Next]_vars

\* payloads without queue data: every count for s1, one payload for s2
CountPayloads ==
  {Payload("s1", e, x, <<>>) : e \in 0..MaxCount, x \in 0..MaxCount}
  \cup {Payload("s2", MaxCount, 0, <<>>)}

\* SpecOcc: ingestion one request at a time while the clock runs
NextOcc ==
  \/ \E s \in StoreIds : StoreCreateBegin("p1", "u1", s)
  \/ StoreCreateSave("p1")
  \/ \E pl \in CountPayloads : IngestBegin("p1", "u1", pl)
  \/ IngestPreSave("p1")
  \/ IngestInsert("p1")
  \/ IngestStaffing("p1")
  \/ Tick

SpecOcc == Init /\ [][NextOcc]_vars

\* payloads with the counts fixed: every till list for s1, one for s2
AlertPayloads ==
  {Payload("s1", 0, 0, tills) : tills \in TillLists}
  \cup {Payload("s2", 0, 0, <<Till(1, 12, 3, "active")>>)}

\* SpecAlert: ingestion one request at a time, with failing writes, and the
\* alert routes
NextAlert ==
  \/ \E s \in StoreIds : StoreCreateBegin("p1", "u1", s)
  \/ StoreCreateSave("p1")
  \/ \E pl \in AlertPayloads : IngestBegin("p1", "u1", pl)
  \/ IngestPreSave("p1")
  \/ IngestInsert("p1")
  \/ IngestInsertFail("p1")
  \/ IngestStaffing("p1")
  \/ IngestStaffingFail("p1")
  \/ IngestQueue("p1")
  \/ IngestQueueFail("p1")
  \/ \E i \in 1..MaxAlerts : AcknowledgeAlert(i)
  \/ \E i \in 1..MaxAlerts : ResolveAlert(i)

SpecAlert == Init /\ [][NextAlert]_vars

\* payloads with the counts fixed and at most one till: for s1 an idle till, a
\* till with a long queue and a long wait, an inactive till with a long queue;
\* for s2 the till with the long queue
SynthPayloads ==
  {Payload("s1", 0, 0, tills) :
     tills \in {<<>>} \cup {<<[t EXCEPT !.tillNumber = 1]>> : t \in TillChoices}}
  \cup {Payload("s2", 0, 0, <<Till(1, 12, 3, "active")>>)}

\* SpecSynth: ingestion one request at a time, and the alert routes
NextSynth ==
  \/ \E s \in StoreIds : StoreCreateBegin("p1", "u1", s)
  \/ StoreCreateSave("p1")
  \/ \E pl \in SynthPayloads : IngestBegin("p1", "u1", pl)
  \/ IngestPreSave("p1")
  \/ IngestInsert("p1")
  \/ IngestStaffing("p1")
  \/ IngestQueue("p1")
  \/ \E i \in 1..MaxAlerts : AcknowledgeAlert(i)
  \/ \E i \in 1..MaxAlerts : ResolveAlert(i)

SpecSynth == Init /\ [][NextSynth]_vars

\* parseInt(req.query.minutes) || 60
DefaultMinutes == 60

\* the window lengths asked for: short ones, one longer than the clock's
\* range, and the default
WindowLengths == 1..(MaxTime + 1) \cup {DefaultMinutes}

\* payloads without queue data for one store, every entry count
WindowPayloads == {Payload("s1", e, 0, <<>>) : e \in 0..MaxCount}

\* SpecWindow: ingestion and window queries of one store, one request at a
\* time, while the clock runs
NextWindow ==
  \/ StoreCreateBegin("p1", "u1", "s1")
  \/ StoreCreateSave("p1")
  \/ \E pl \in WindowPayloads : IngestBegin("p1", "u1", pl)
  \/ IngestPreSave("p1")
  \/ IngestInsert("p1")
  \/ IngestStaffing("p1")
  \/ \E w \in WindowLengths : QueryBegin("p1", "u1", "window", "s1", w, "today", "hour")
  \/ QueryRead("p1")
  \/ Tick

SpecWindow == Init /\ [][NextWindow]_vars

\* local times of the server: UTC-5:00, UTC, UTC+5:30
Offsets == {-5 * HourMinutes, 0, 5 * HourMinutes + HourMinutes \div 2}

\* a quarter of an hour before and after the local midnights that follow day 0
CalendarInstants ==
  {DayMinutes - off + d : off \in Offsets,
                          d \in {-(HourMinutes \div 4), HourMinutes \div 4}}

\* the server runs in any of the local times, from the first of the instants
InitCalendar ==
  /\ tz \in Offsets
  /\ now = CHOOSE t \in CalendarInstants : \A u \in CalendarInstants : t <= u
  /\ stores = {}
  /\ samples = <<>>
  /\ alerts = <<>>
  /\ req = [p \in Procs |-> NoReq]
  /\ resp = [p \in Procs |-> NoResp]

\* SpecCalendar: ingestion and analytics queries of one store around midnight
NextCalendar ==
  \/ StoreCreateBegin("p1", "u1", "s1")
  \/ StoreCreateSave("p1")
  \/ IngestBegin("p1", "u1", Payload("s1", 1, 0, <<>>))
  \/ IngestPreSave("p1")
  \/ IngestInsert("p1")
  \/ IngestStaffing("p1")
  \/ \E per \in {"today", "week"}, g \in {"hour", "day"} :
       QueryBegin("p1", "u1", "analytics", "s1", 0, per, g)
  \/ QueryRead("p1")
  \/ \E t \in CalendarInstants : AdvanceTo(t)

SpecCalendar == InitCalendar /\ [][NextCalendar]_vars

\* bodies that carry an occupancy of their own, for one store: every count
\* with an occupancy above any that the counts can add up to, and one body
\* with a negative occupancy
OccupancyPayloads ==
  {[Payload("s1", e, x, <<>>) EXCEPT !.currentOccupancy = MaxCount * MaxSamples + 1] :
     e \in 0..MaxCount, x \in 0..MaxCount}
  \cup {[Payload("s1", MaxCount, 0, <<>>) EXCEPT !.currentOccupancy = -3]}

\* SpecDerive: ingestion of bodies that carry an occupancy, one request at a
\* time, while the clock runs
NextDerive ==
  \/ StoreCreateBegin("p1", "u1", "s1")
  \/ StoreCreateSave("p1")
  \/ \E pl \in OccupancyPayloads : IngestBegin("p1", "u1", pl)
  \/ IngestPreSave("p1")
  \/ IngestInsert("p1")
  \/ IngestStaffing("p1")
  \/ Tick

SpecDerive == Init /\ [][NextDerive]_vars

\* two payloads for one store, each with a long queue at till 1
RacePayloads ==
  {Payload("s1", 1, 0, <<Till(1, 12, 3, "active")>>),
   Payload("s1", 0, 1, <<Till(1, 12, 2, "inactive")>>)}

\* SpecConc: two handlers whose steps interleave
NextConc ==
  \/ \E p \in Procs : StoreCreateBegin(p, "u1", "s1")
  \/ \E p \in Procs : StoreCreateSave(p)
  \/ \E p \in Procs, pl \in RacePayloads : IngestBegin(p, "u1", pl)
  \/ \E p \in Procs : IngestPreSave(p)
  \/ \E p \in Procs : IngestInsert(p)
  \/ \E p \in Procs : IngestStaffing(p)
  \/ \E p \in Procs : IngestQueue(p)
  \/ Tick

SpecConc == Init /\ [][NextConc]_vars

\* new FootfallData({storeId, timestamp, entryCount, exitCount, owner}).save()
\* on the model itself: the timestamp is the caller's, not Date.now
SaveSample(s, t, e, x) ==
  /\ Len(samples) < MaxSamples
  /\ \E d \in PreSave(samples, [NoDoc EXCEPT !.storeId = s, !.owner = "u1",
                                             !.timestamp = t, !.entryCount = e,
                                             !.exitCount = x]) :
       samples' = Append(samples, Stored(d))
  /\ UNCHANGED <<tz, now, stores, alerts, req, resp>>

\* new FootfallData({..., dataType}).save() of a rollup document, whose
\* dataType is 'hourly' or 'daily'
SaveAggregate(s, t, e, dataType) ==
  /\ Len(samples) < MaxSamples
  /\ \E d \in PreSave(samples, [NoDoc EXCEPT !.storeId = s, !.owner = "u1",
                                             !.timestamp = t, !.entryCount = e,
                                             !.dataType = dataType]) :
       samples' = Append(samples, Stored(d))
  /\ UNCHANGED <<tz, now, stores, alerts, req, resp>>

\* SpecSave: documents saved through the model with any timestamp
NextSave ==
  \E s \in StoreIds, t \in 0..MaxTime, e \in 0..MaxCount, x \in 0..MaxCount :
    SaveSample(s, t, e, x)

SpecSave == Init /\ [][NextSave]_vars

\* a save as SaveSample, in a collection that takes one document more, so
\* that two documents can follow an earlier one
SaveTied(s, t, e, x) ==
  /\ Len(samples) <= MaxSamples
  /\ \E d \in PreSave(samples, [NoDoc EXCEPT !.storeId = s, !.owner = "u1",
                                             !.timestamp = t, !.entryCount = e,
                                             !.exitCount = x]) :
       samples' = Append(samples, Stored(d))
  /\ UNCHANGED <<tz, now, stores, alerts, req, resp>>

\* SpecTies: documents of one store saved through the model with any
\* timestamp, equal ones included
NextTies ==
  \E t \in 0..MaxTime, e \in 0..MaxCount, x \in {0, MaxCount} :
    SaveTied("s1", t, e, x)

SpecTies == Init /\ [][NextTies]_vars

\* SpecLog: every operation that reads or writes the samples of one store,
\* one request at a time, with documents saved under any timestamp
NextLog ==
  \/ StoreCreateBegin("p1", "u1", "s1")
  \/ StoreCreateSave("p1")
  \/ IngestBegin("p1", "u1", Payload("s1", 1, 0, <<>>))
  \/ IngestPreSave("p1")
  \/ IngestInsert("p1")
  \/ IngestStaffing("p1")
  \/ \E op \in QueryOps : QueryBegin("p1", "u1", op, "s1", 1, "week", "day")
  \/ QueryRead("p1")
  \/ StoreDeleteBegin("p1", "u1", "s1")
  \/ StoreDeleteSave("p1")
  \/ \E t \in 0..MaxTime, e \in 0..MaxCount : SaveSample("s1", t, e, 0)
  \/ Tick

SpecLog == Init /\ [][NextLog]_vars

\* SpecRetire: one store is created, fed samples that raise alerts, queried
\* and deleted, one request at a time
NextRetire ==
  \/ StoreCreateBegin("p1", "u1", "s1")
  \/ StoreCreateSave("p1")
  \/ \E tills \in {<<>>, <<Till(1, 12, 3, "active")>>} :
       IngestBegin("p1", "u1", Payload("s1", 1, 0, tills))
  \/ IngestPreSave("p1")
  \/ IngestInsert("p1")
  \/ IngestStaffing("p1")
  \/ IngestQueue("p1")
  \/ \E op \in QueryOps : QueryBegin("p1", "u1", op, "s1", 1, "today", "hour")
  \/ QueryRead("p1")
  \/ StoreDeleteBegin("p1", "u1", "s1")
  \/ StoreDeleteSave("p1")
  \/ Tick

SpecRetire == Init /\ [][NextRetire]_vars

\* bodies with one active till: the counts 20/5 or 0/1, till 1 with an empty
\* queue or a queue of 12, service time 3
EndToEndPayloads ==
  {Payload(s, c[1], c[2], <<Till(1, q, 3, "active")>>) :
     s \in StoreIds, c \in {<<20, 5>>, <<0, 1>>}, q \in {0, 12}}

\* SpecEndToEnd: ingestion one request at a time
NextEndToEnd ==
  \/ \E s \in StoreIds : StoreCreateBegin("p1", "u1", s)
  \/ StoreCreateSave("p1")
  \/ \E pl \in EndToEndPayloads : IngestBegin("p1", "u1", pl)
  \/ IngestPreSave("p1")
  \/ IngestInsert("p1")
  \/ IngestStaffing("p1")
  \/ IngestQueue("p1")

SpecEndToEnd == Init /\ [][NextEndToEnd]_vars

\* SpecStores: the store routes, two handlers whose steps interleave
NextStores ==
  \/ \E p \in Procs, c \in Users, s \in StoreIds : StoreCreateBegin(p, c, s)
  \/ \E p \in Procs : StoreCreateSave(p)
  \/ \E p \in Procs, c \in Users, s \in StoreIds, name \in {"", "b"} :
       StoreUpdateBegin(p, c, s, name)
  \/ \E p \in Procs : StoreUpdateSave(p)
  \/ \E p \in Procs, c \in Users, s \in StoreIds : StoreDeleteBegin(p, c, s)
  \/ \E p \in Procs : StoreDeleteSave(p)

SpecStores == Init /\ [][NextStores]_vars

\* SpecWindowRace: ingestion by two handlers whose steps interleave, and
\* window queries, while the clock runs
NextWindowRace ==
  \/ StoreCreateBegin("p1", "u1", "s1")
  \/ StoreCreateSave("p1")
  \/ \E p \in Procs, pl \in WindowPayloads : IngestBegin(p, "u1", pl)
  \/ \E p \in Procs : IngestPreSave(p)
  \/ \E p \in Procs : IngestInsert(p)
  \/ \E p \in Procs : IngestStaffing(p)
  \/ QueryBegin("p1", "u1", "window", "s1", DefaultMinutes, "", "")
  \/ QueryRead("p1")
  \/ Tick

SpecWindowRace == Init /\ [][NextWindowRace]_vars

\* bodies for one store: no queue data, or till 2 with a long queue followed
\* by an inactive till 1
OrderPayloads ==
  {Payload("s1", 1, 0, tills) :
     tills \in {<<>>, <<Till(MaxTills, 12, 3, "active"), Till(1, 0, 3, "inactive")>>}}

\* SpecOrder: ingestion of one store, one request at a time, with failing
\* writes
NextOrder ==
  \/ StoreCreateBegin("p1", "u1", "s1")
  \/ StoreCreateSave("p1")
  \/ \E pl \in OrderPayloads : IngestBegin("p1", "u1", pl)
  \/ IngestPreSave("p1")
  \/ IngestInsert("p1")
  \/ IngestInsertFail("p1")
  \/ IngestStaffing("p1")
  \/ IngestStaffingFail("p1")
  \/ IngestQueue("p1")
  \/ IngestQueueFail("p1")
  \/ Tick

SpecOrder == Init /\ [][NextOrder]_vars

\* SpecWindowStats: realtime and rollup documents of one store saved under
\* any timestamp, and window queries, while the clock runs
NextWindowStats ==
  \/ StoreCreateBegin("p1", "u1", "s1")
  \/ StoreCreateSave("p1")
  \/ \E t \in 0..MaxTime, e \in 0..MaxCount : SaveSample("s1", t, e, MaxCount - e)
  \/ \E t \in 0..MaxTime : SaveAggregate("s1", t, MaxCount, "hourly")
  \/ \E w \in 1..MaxTime : QueryBegin("p1", "u1", "window", "s1", w, "", "")
  \/ QueryRead("p1")
  \/ Tick

SpecWindowStats == Init /\ [][NextWindowStats]_vars

\* the one body that a caller sends, and sends again
RetryPayload == Payload("s1", 1, 0, <<Till(1, 12, 3, "active")>>)

\* SpecRetry: one caller sends one body again and again, one request at a
\* time, with failing writes, while the clock runs
NextRetry ==
  \/ StoreCreateBegin("p1", "u1", "s1")
  \/ StoreCreateSave("p1")
  \/ IngestBegin("p1", "u1", RetryPayload)
  \/ IngestPreSave("p1")
  \/ IngestInsert("p1")
  \/ IngestInsertFail("p1")
  \/ IngestStaffing("p1")
  \/ IngestStaffingFail("p1")
  \/ IngestQueue("p1")
  \/ IngestQueueFail("p1")
  \/ Tick

SpecRetry == Init /\ [][NextRetry]_vars

\* till lists with queues at tills of every status
StatusPayloads ==
  {Payload("s1", 0, 0, tills) :
     tills \in {<<Till(1, 12, 3, "inactive"), Till(MaxTills, 12, 2, "maintenance")>>,
                <<Till(1, 12, 3, "inactive"), Till(MaxTills, 11, 1, "active")>>,
                <<Till(1, 4, 3, "active"), Till(MaxTills, 3, 2, "active")>>,
                <<Till(1, 22, 3, "active")>>,
                <<>>}}

\* SpecTills: ingestion of one store, one request at a time, with tills of
\* every status, and the alert routes
NextTills ==
  \/ StoreCreateBegin("p1", "u1", "s1")
  \/ StoreCreateSave("p1")
  \/ \E pl \in StatusPayloads : IngestBegin("p1", "u1", pl)
  \/ IngestPreSave("p1")
  \/ IngestInsert("p1")
  \/ IngestStaffing("p1")
  \/ IngestQueue("p1")
  \/ \E i \in 1..MaxAlerts : AcknowledgeAlert(i)
  \/ \E i \in 1..MaxAlerts : ResolveAlert(i)

SpecTills == Init /\ [][NextTills]_vars

\* the till lists calculateQueueMetrics is applied to
MetricTills ==
  {Till(n, q, st, status) : n \in {1}, q \in {0, 1, 3}, st \in {2, 4},
                            status \in Statuses}
  \cup {Till(1, 99, 99, "inactive")}

MetricLists == UNION {[1..n -> MetricTills] : n \in 0..MaxLen}

\* a sample is at hand, with or without queue data
InitMetrics ==
  /\ tz = 0
  /\ now = 0
  /\ stores = {}
  /\ samples = <<>>
  /\ alerts = <<>>
  /\ resp = [p \in Procs |-> NoResp]
  /\ \E tills \in MetricLists, has \in BOOLEAN :
       /\ has \/ tills = <<>>
       /\ req = [p \in Procs |->
                   IF p = "p1"
                   THEN [NoReq EXCEPT !.op = "metrics",
                                      !.payload.hasQueueData = has,
                                      !.payload.tillQueues = tills]
                   ELSE NoReq]

\* sample.calculateQueueMetrics()
Metrics(p) ==
  /\ req[p].op = "metrics"
  /\ req[p].pc = "idle"
  /\ resp' = [resp EXCEPT ![p] =
                [Response(200, "") EXCEPT !.queueMetrics =
                   calculateQueueMetrics(req[p].payload.hasQueueData,
                                         req[p].payload.tillQueues)]]
  /\ req' = [req EXCEPT ![p].pc = "done"]
  /\ UNCHANGED <<tz, now, stores, samples, alerts>>

NextMetrics == Metrics("p1")

SpecMetrics == InitMetrics /\ [][NextMetrics]_vars

\* ------------------------------------------------------------------ claims
\* the samples of one store, in the order they were saved
StoreSamples(s) == SelectSeq(samples, LAMBDA x : x.storeId = s)

StrictlyIncreasing(L) ==
  \A i \in 1..(Len(L) - 1) : L[i].timestamp < L[i + 1].timestamp

\* C1: when the samples of a store were ingested one at a time with strictly
\* increasing timestamps, each stored sample's currentOccupancy is
\* max(0, occupancy of the sample ingested just before + entryCount - exitCount),
\* the occupancy before the first sample being 0.
C1_OccupancyChain ==
  \A s \in StoreIds :
    LET L == StoreSamples(s)
    IN  StrictlyIncreasing(L) =>
          \A i \in 1..Len(L) :
            L[i].currentOccupancy =
              Max0((IF i = 1 THEN 0 ELSE L[i - 1].currentOccupancy)
                   + L[i].entryCount - L[i].exitCount)

\* a store holds two samples with increasing timestamps, the first with people
\* inside, the second with an occupancy that its own counts do not explain
C1_Witness ==
  \E s \in StoreIds :
    LET L == StoreSamples(s)
    IN  /\ Len(L) >= 2
        /\ StrictlyIncreasing(L)
        /\ L[1].currentOccupancy > 0
        /\ L[2].currentOccupancy # Max0(L[2].entryCount - L[2].exitCount)

\* C2: for two samples A and B of a store with timestamp(A) < timestamp(B), the
\* occupancy held for B once both are stored is the occupancy B gets when A is
\* saved before B, also when B was saved first and A backfilled.
C2_OrderIndependent ==
  \A s \in StoreIds :
    LET L == StoreSamples(s)
    IN  (Len(L) = 2 /\ L[1].timestamp # L[2].timestamp) =>
          LET A == IF L[1].timestamp < L[2].timestamp THEN L[1] ELSE L[2]
              B == IF L[1].timestamp < L[2].timestamp THEN L[2] ELSE L[1]
          IN  \E a \in PreSave(<<>>, A) :
                \E b \in PreSave(<<a>>, B) :
                  b.currentOccupancy = B.currentOccupancy

Ingests == {p \in Procs : req[p].op = "ingest" /\ req[p].pc = "done"}

\* C3: an ingest request whose sample was written answers with success, also
\* when staffing-alert or queue-alert synthesis failed afterwards.
C3_SavedMeansSuccess ==
  \A p \in Ingests : req[p].saved => resp[p].status = 201

\* C4: once staffing synthesis is over, queue-alert synthesis is attempted for
\* every till of the sample, whatever happened at the tills before it.
C4_EveryTillAttempted ==
  \A p \in Ingests : req[p].staffed = "ok" => Len(req[p].attempted) = req[p].tills

SameScope(a, b) ==
  a.storeId = b.storeId /\ a.alertType = b.alertType /\ a.tillNumber = b.tillNumber

\* C5: after any sequence of ingestions run one at a time, no two alerts of the
\* same (store, alertType, till scope) are both unacknowledged and unresolved.
C5_OneOpenPerScope ==
  \A i, j \in 1..Len(alerts) :
    (i # j /\ SameScope(alerts[i], alerts[j])) =>
      ~(IsOpen(alerts[i]) /\ IsOpen(alerts[j]))

\* a scope was synthesized again after its alert had left the open state: it
\* holds an older alert that is not open and a fresh open one
C5_Witness ==
  \E i, j \in 1..Len(alerts) :
    /\ i < j
    /\ SameScope(alerts[i], alerts[j])
    /\ ~IsOpen(alerts[i])
    /\ IsOpen(alerts[j])

\* C6: when two ingest requests of one store run concurrently and both warrant
\* an alert for the same scope, no interleaving leaves more than one open alert
\* for the scope.
C6_NoDuplicateUnderRace ==
  \A s \in StoreIds, t \in 0..MaxTills :
    /\ Cardinality(OpenAlerts(alerts, s, "staffing", t)) <= 1
    /\ Cardinality(OpenAlerts(alerts, s, "queue", t)) <= 1

\* both handlers are in flight for the same store, each past a staffing
\* synthesis that its payload warranted, and the store has one open staffing alert
C6_Witness ==
  /\ \A p \in Procs : /\ req[p].op = "ingest"
                      /\ req[p].storeId = "s1"
                      /\ req[p].pc = "queue"
                      /\ req[p].payload.tillQueues = <<Till(1, 12, 3, "active")>>
  /\ req["p1"].attempted = <<>>
  /\ req["p2"].attempted = <<>>
  /\ Cardinality(OpenAlerts(alerts, "s1", "staffing", 0)) = 1

ActiveIndices(tills) == {i \in 1..Len(tills) : tills[i].status = "active"}

RECURSIVE SumOver(_, _)
SumOver(f, I) ==
  IF I = {} THEN 0
  ELSE LET i == CHOOSE k \in I : TRUE IN f[i] + SumOver(f, I \ {i})

\* C7: calculateQueueMetrics returns activeTills = the number of tills with
\* status active, totalQueue = the sum of their queueLength, and avgWaitTime =
\* (sum of queueLength x avgServiceTime over them) / activeTills to the nearest
\* hundredth; other tills contribute to none of the three.
C7_QueueMetrics ==
  \A p \in Procs :
    (req[p].op = "metrics" /\ req[p].pc = "done" /\ req[p].payload.hasQueueData) =>
      LET t  == req[p].payload.tillQueues
          I  == ActiveIndices(t)
          n  == Cardinality(I)
          ws == SumOver([i \in 1..Len(t) |-> t[i].queueLength * t[i].avgServiceTime], I)
          m  == resp[p].queueMetrics
          e  == 100 * ws - n * m.avgWaitTime
      IN  /\ m.activeTills = n
          /\ m.totalQueue = SumOver([i \in 1..Len(t) |-> t[i].queueLength], I)
          /\ n > 0 => (2 * e <= n /\ -2 * e <= n)

\* the metrics of [{active, 3, 2}, {inactive, 99, 99}, {active, 1, 4}] are
\* totalQueue 4, avgWaitTime 5.00, activeTills 2
C7_Witness ==
  /\ req["p1"].pc = "done"
  /\ req["p1"].payload.tillQueues =
       <<Till(1, 3, 2, "active"), Till(1, 99, 99, "inactive"), Till(1, 1, 4, "active")>>
  /\ resp["p1"].queueMetrics =
       [totalQueue |-> 4, avgWaitTime |-> 500, activeTills |-> 2]

\* C8: an ingest request that fails validation, or whose store is absent,
\* inactive or another account's, is answered 400 or 404 without a sample
\* write and without any alert synthesis.
C8_RejectedWritesNothing ==
  \A p \in Procs :
    (req[p].op = "ingest" /\ (~req[p].valid \/ req[p].class # "own")) =>
      /\ req[p].pc = "done"
      /\ resp[p].status \in {400, 404}
      /\ ~req[p].saved
      /\ req[p].staffed = "no"
      /\ req[p].attempted = <<>>

\* an ingest with valid numbers was refused for a store of the caller that is
\* inactive, while the collection holds samples
C8_Witness ==
  /\ req["p1"].op = "ingest"
  /\ req["p1"].valid
  /\ req["p1"].class = "inactive"
  /\ resp["p1"].status = 404
  /\ Len(samples) > 0

\* C9: ingest, latest, window, history and analytics answer a store that does
\* not exist, an inactive store and another account's store with one and the
\* same not-found/denied response.
C9_OneDeniedOutcome ==
  \A p \in Procs :
    (/\ req[p].pc = "done"
     /\ req[p].op \in QueryOps \cup {"ingest"}
     /\ req[p].valid
     /\ req[p].class \in {"absent", "inactive", "foreign"}) =>
      resp[p] = NotFoundOrDenied

\* a window query on an active store of another account, which holds samples,
\* was answered not-found/denied
C9_Witness ==
  /\ req["p1"].op = "window"
  /\ req["p1"].class = "foreign"
  /\ resp["p1"] = NotFoundOrDenied
  /\ \E st \in stores : /\ st.storeId = req["p1"].storeId
                        /\ st.isActive
                        /\ st.owner # req["p1"].caller
                        /\ StoreSamples(st.storeId) # <<>>

\* C10: the rows a window or analytics query aggregates are samples owned by
\* the account that asks.
C10_OwnRowsOnly ==
  \A p \in Procs :
    (req[p].pc = "done" /\ req[p].op \in {"window", "analytics"}) =>
      \A i \in 1..Len(resp[p].rows) : resp[p].rows[i].owner = req[p].caller

\* a window query returned rows while another account's samples are stored
C10_Witness ==
  /\ req["p1"].op = "window"
  /\ req["p1"].pc = "done"
  /\ resp["p1"].rows # <<>>
  /\ \E i \in 1..Len(samples) : samples[i].owner # req["p1"].caller

\* C11: a window query of a store with no realtime sample at or after
\* now - W answers 200 with totalEntries, totalExits, avgPosRate, avgOccupancy,
\* maxOccupancy, dataPoints and latestOccupancy all 0, for every W >= 1.
C11_EmptyWindowZero ==
  [][\A p \in Procs :
       (/\ req[p].op = "window"
        /\ req[p].pc = "read"
        /\ req'[p].pc = "done"
        /\ req[p].minutes >= 1
        /\ ~\E i \in 1..Len(samples) :
              /\ samples[i].storeId = req[p].storeId
              /\ samples[i].dataType = "realtime"
              /\ samples[i].timestamp >= now - req[p].minutes) =>
         /\ resp'[p].status = 200
         /\ resp'[p].stats = ZeroStats(req[p].minutes)]_vars

\* a window query was answered with the zero-filled result for a store whose
\* samples are all older than the window
C11_Witness ==
  /\ req["p1"].op = "window"
  /\ req["p1"].pc = "done"
  /\ req["p1"].minutes >= 1
  /\ resp["p1"].status = 200
  /\ resp["p1"].stats = ZeroStats(req["p1"].minutes)
  /\ StoreSamples(req["p1"].storeId) # <<>>
  /\ \A i \in 1..Len(samples) : samples[i].timestamp < now - req["p1"].minutes

\* the instant that a bucket key names: the start of its day and hour
KeyInstant(k) == k.day * DayMinutes + k.hour * HourMinutes

\* C12: an analytics query with period 'today' and groupBy 'hour' returns only
\* buckets whose (year, month, day, hour) key lies inside [start of the local
\* calendar day, start of the next local calendar day), whatever the offset of
\* local time from UTC.
C12_TodayBucketsInLocalDay ==
  [][\A p \in Procs :
       (/\ req[p].op = "analytics"
        /\ req[p].period = "today"
        /\ req[p].groupBy = "hour"
        /\ req[p].pc = "read"
        /\ req'[p].pc = "done") =>
         \A j \in 1..Len(resp'[p].buckets) :
           /\ LocalDayStart(now, tz) <= KeyInstant(resp'[p].buckets[j].key)
           /\ KeyInstant(resp'[p].buckets[j].key) < LocalDayStart(now, tz) + DayMinutes]_vars

\* the occupancies that pre('save') can derive for sample i from its own counts
\* and the occupancy of another sample of the store, or none
DerivedOccupancies(i) ==
  {Max0(o + samples[i].entryCount - samples[i].exitCount) :
     o \in {0} \cup {samples[k].currentOccupancy :
                       k \in {j \in 1..Len(samples) :
                                j # i /\ samples[j].storeId = samples[i].storeId}}}

\* C13: every stored sample has currentOccupancy >= 0, and the value is the one
\* the save step derives from the counts and an earlier sample, never the one
\* of the ingest payload.
C13_OccupancyDerived ==
  /\ \A i \in 1..Len(samples) :
       /\ samples[i].currentOccupancy >= 0
       /\ samples[i].currentOccupancy \in DerivedOccupancies(i)
  /\ \A p \in Procs :
       (req[p].op = "ingest" /\ req[p].pc = "staffing") =>
         /\ samples[Len(samples)] = Stored(req[p].doc)
         /\ req[p].payload.currentOccupancy \notin DerivedOccupancies(Len(samples))

\* a body with more exits than entries and an occupancy of its own was stored
\* for a store without people inside: the stored occupancy is 0
C13_Witness ==
  /\ req["p1"].op = "ingest"
  /\ req["p1"].pc = "staffing"
  /\ req["p1"].payload.currentOccupancy # 0
  /\ req["p1"].doc.exitCount > req["p1"].doc.entryCount
  /\ Len(samples) >= 2
  /\ samples[Len(samples)] = Stored(req["p1"].doc)
  /\ samples[Len(samples)].currentOccupancy = 0

\* C14: the sample log is append-only: no step modifies or removes a stored
\* sample, so a new sample, whatever its timestamp, leaves every field of the
\* samples stored before it, currentOccupancy included, as it was at creation.
C14_AppendOnly ==
  [][/\ Len(samples') >= Len(samples)
     /\ \A i \in 1..Len(samples) : samples'[i] = samples[i]]_vars

\* an ingest request stored a sample with an earlier timestamp than a sample
\* stored before it, and the older record still holds the occupancy of its
\* own counts
C14_Witness ==
  /\ req["p1"].op = "ingest"
  /\ req["p1"].saved
  /\ Len(samples) = 2
  /\ samples[1].storeId = samples[2].storeId
  /\ samples[2].timestamp < samples[1].timestamp
  /\ samples[2].entryCount > 0
  /\ samples[1].currentOccupancy = Max0(samples[1].entryCount - samples[1].exitCount)

\* C15: deleting a store only marks it inactive: the store record and every
\* sample and alert stay stored; an ingest, latest, window, history or
\* analytics request that arrives for a store of the caller that is inactive
\* gets the not-found/denied response.
C15_SoftDelete ==
  [][\A p \in Procs :
       /\ (req[p].pc = "storeDelete" /\ req'[p].pc = "done") =>
            /\ {[storeId |-> st.storeId, owner |-> st.owner] : st \in stores'}
                 = {[storeId |-> st.storeId, owner |-> st.owner] : st \in stores}
            /\ \A st \in stores' :
                 (st.storeId = req[p].storeId /\ st.owner = req[p].caller) =>
                   ~st.isActive
            /\ samples' = samples
            /\ alerts' = alerts
       /\ (/\ Free(p)
           /\ req'[p] # req[p]
           /\ req'[p].op \in QueryOps \cup {"ingest"}
           /\ req'[p].valid
           /\ \E st \in stores : /\ st.storeId = req'[p].storeId
                                  /\ st.owner = req'[p].caller
                                  /\ ~st.isActive) =>
            /\ req'[p].pc = "done"
            /\ resp'[p] = NotFoundOrDenied]_vars

\* a deleted store is still on record, inactive, with its samples and alerts,
\* and an analytics query for it was answered not-found/denied
C15_Witness ==
  /\ stores = {[storeId |-> "s1", owner |-> "u1", isActive |-> FALSE,
                storeName |-> "a"]}
  /\ StoreSamples("s1") # <<>>
  /\ \E i \in 1..Len(alerts) : alerts[i].storeId = "s1"
  /\ req["p1"].op = "analytics"
  /\ req["p1"].class = "inactive"
  /\ resp["p1"] = NotFoundOrDenied

\* C16: ingesting, into a store with no earlier sample, a payload with counts
\* e and x and a single active till with queue q and service time s answers
\* currentOccupancy = max(0, e - x), totalQueue = q and avgWaitTime = q * s;
\* when q is above the queue threshold an open queue alert of that till exists
\* afterwards.
C16_EndToEnd ==
  [][\A p \in Procs :
       (/\ req[p].op = "ingest"
        /\ req[p].pc = "queue"
        /\ req'[p].pc = "done"
        /\ Len(StoreSamples(req[p].storeId)) = 1
        /\ Len(req[p].payload.tillQueues) = 1
        /\ req[p].payload.tillQueues[1].status = "active") =>
         LET pl   == req[p].payload
             till == pl.tillQueues[1]
         IN  /\ resp'[p].status = 201
             /\ resp'[p].currentOccupancy =
                  Max0(ToInt(pl.entryCount) - ToInt(pl.exitCount))
             /\ resp'[p].queueMetrics.totalQueue = till.queueLength
             /\ resp'[p].queueMetrics.avgWaitTime =
                  100 * till.queueLength * till.avgServiceTime
             /\ till.queueLength > QueueAlertThreshold =>
                  OpenAlerts(alerts', req[p].storeId, "queue", till.tillNumber) # {}]_vars

\* the first sample of a store, with counts 20/5 and till 1 at queue 12 and
\* service time 3, was answered 15, 12 and 36.00, and till 1 has an open queue
\* alert
C16_Witness ==
  /\ req["p1"].op = "ingest"
  /\ req["p1"].pc = "done"
  /\ Len(StoreSamples("s1")) = 1
  /\ samples[1].entryCount = 20
  /\ samples[1].exitCount = 5
  /\ resp["p1"].status = 201
  /\ resp["p1"].currentOccupancy = 15
  /\ resp["p1"].queueMetrics = [totalQueue |-> 12, avgWaitTime |-> 3600, activeTills |-> 1]
  /\ OpenAlerts(alerts, "s1", "queue", 1) # {}

\* the state of an alert record
AlertState(a) ==
  IF a.isResolved THEN "resolved"
  ELSE IF a.isAcknowledged THEN "acknowledged" ELSE "open"

\* C17: an alert changes state only along open -> acknowledged, open ->
\* resolved and acknowledged -> resolved; a resolved alert is never changed
\* again, and a synthesis for a scope whose alerts are resolved adds a fresh
\* open alert.
C17_AlertLifecycle ==
  [][/\ Len(alerts') >= Len(alerts)
     /\ \A i \in 1..Len(alerts) :
          /\ <<AlertState(alerts[i]), AlertState(alerts'[i])>> \in
               {<<"open", "open">>, <<"acknowledged", "acknowledged">>,
                <<"open", "acknowledged">>, <<"open", "resolved">>,
                <<"acknowledged", "resolved">>, <<"resolved", "resolved">>}
          /\ AlertState(alerts[i]) = "resolved" => alerts'[i] = alerts[i]
     /\ \A i \in (Len(alerts) + 1)..Len(alerts') :
          AlertState(alerts'[i]) = "open"]_vars

\* a scope holds an alert that was acknowledged and then resolved, and a
\* younger alert that is open
C17_Witness ==
  \E i, j \in 1..Len(alerts) :
    /\ i < j
    /\ SameScope(alerts[i], alerts[j])
    /\ alerts[i].isAcknowledged
    /\ alerts[i].isResolved
    /\ AlertState(alerts[j]) = "open"

\* C18: store identifiers are unique per owner: no step of the store routes
\* leaves two records with one owner and one storeId, and a create request
\* for a storeId that the caller already has is rejected without a write.
C18_StoreIdUniquePerOwner ==
  [][/\ \A a, b \in stores' :
          (a.owner = b.owner /\ a.storeId = b.storeId) => a = b
     /\ \A p \in Procs :
          /\ (/\ Free(p)
              /\ req'[p] # req[p]
              /\ req'[p].op = "createStore"
              /\ FindStore(stores, req'[p].storeId, req'[p].caller) # {}) =>
               /\ req'[p].pc = "done"
               /\ resp'[p].status = 400
               /\ stores' = stores
          /\ (/\ req[p].pc = "storeSave"
              /\ req'[p].pc = "done"
              /\ FindStore(stores, req[p].storeId, req[p].caller) # {}) =>
               /\ resp'[p].status # 201
               /\ stores' = stores]_vars

\* a create request passed the duplicate check while a request of the same
\* caller for the same storeId was in flight, and was refused at the save;
\* the caller holds the store, renamed and deleted since
C18_Witness ==
  \E p \in Procs :
    /\ req[p].op = "createStore"
    /\ req[p].pc = "done"
    /\ req[p].class = "absent"
    /\ resp[p].status = 500
    /\ \E st \in stores : /\ st.storeId = req[p].storeId
                           /\ st.owner = req[p].caller
                           /\ ~st.isActive
                           /\ st.storeName = "b"

\* C19: two ingest requests of one store that run concurrently can both read
\* the same prior sample before either is written. Every stored occupancy is
\* what pre('save') derives from the samples that were stored at some moment
\* before the sample's own insert, which need not be all the samples that were
\* inserted before it; so a sample with a later timestamp can lack the counts
\* of an earlier one.
C19_ReadsEarlierCollection ==
  \A i \in 1..Len(samples) :
    \E n \in 0..(i - 1) :
      LET own == samples[i].entryCount - samples[i].exitCount
          E   == {k \in 1..n : /\ samples[k].storeId = samples[i].storeId
                               /\ samples[k].timestamp < samples[i].timestamp}
      IN  IF E = {}
          THEN samples[i].currentOccupancy = Max0(own)
          ELSE \E k \in E :
                 /\ \A j \in E : samples[j].timestamp <= samples[k].timestamp
                 /\ samples[i].currentOccupancy =
                      Max0(samples[k].currentOccupancy + own)

\* two samples of one store are stored, the first with people inside and the
\* earlier timestamp; the second, with the later timestamp, holds the
\* occupancy of its own counts alone, not max(0, first + entries - exits)
C19_Witness ==
  /\ Len(samples) = 2
  /\ samples[1].storeId = samples[2].storeId
  /\ samples[1].timestamp < samples[2].timestamp
  /\ samples[1].currentOccupancy > 0
  /\ samples[2].currentOccupancy =
       Max0(samples[2].entryCount - samples[2].exitCount)
  /\ samples[2].currentOccupancy #
       Max0(samples[1].currentOccupancy + samples[2].entryCount - samples[2].exitCount)

\* C20: the latestOccupancy of a window result is the currentOccupancy of the
\* sample with the greatest timestamp among the samples of the window, also
\* when the samples were stored in another order than that of their timestamps.
C20_LatestIsChronological ==
  [][\A p \in Procs :
       (/\ req[p].op = "window"
        /\ req[p].pc = "read"
        /\ req'[p].pc = "done"
        /\ WindowMatch(samples, req[p].storeId, req[p].minutes, now) # <<>>) =>
         LET rows == WindowMatch(samples, req[p].storeId, req[p].minutes, now)
         IN  \E i \in 1..Len(rows) :
               /\ \A k \in 1..Len(rows) : rows[k].timestamp <= rows[i].timestamp
               /\ resp'[p].stats.latestOccupancy = rows[i].currentOccupancy]_vars

\* the alertData that POST /ingest hands to the staffing synthesis for doc
StaffingInput(doc) ==
  LET qm == calculateQueueMetrics(TRUE, doc.tillQueues)
  IN  [queueLength |-> qm.totalQueue, avgWaitTime |-> qm.avgWaitTime,
       currentOccupancy |-> doc.currentOccupancy, posRate |-> doc.posRate]

\* C21: a staffing synthesis for a sample whose metrics warrant no alert
\* leaves every alert as it is, and no synthesis step of an ingest request
\* acknowledges, resolves or removes an alert.
C21_SynthesisLeavesAlerts ==
  [][\A p \in Procs :
       (/\ req[p].op = "ingest"
        /\ req[p].pc \in {"staffing", "queue"}
        /\ req'[p] # req[p]) =>
         /\ Len(alerts') >= Len(alerts)
         /\ \A i \in 1..Len(alerts) :
              /\ alerts'[i].isAcknowledged = alerts[i].isAcknowledged
              /\ alerts'[i].isResolved = alerts[i].isResolved
         /\ (/\ req[p].pc = "staffing"
             /\ req'[p].staffed = "ok"
             /\ StaffingSeverity(StaffingInput(req[p].doc)) = "none") =>
              alerts' = alerts]_vars

\* an ingest without queue data ran its staffing synthesis for a store that
\* has an open staffing alert, and the alert is still open
C21_Witness ==
  /\ req["p1"].op = "ingest"
  /\ req["p1"].pc = "done"
  /\ req["p1"].staffed = "ok"
  /\ req["p1"].tills = 0
  /\ resp["p1"].status = 201
  /\ resp["p1"].queueMetrics = NoMetrics
  /\ OpenAlerts(alerts, req["p1"].storeId, "staffing", 0) # {}

\* C22: within one ingest request the sample is persisted, then the queue
\* metrics are computed and the staffing synthesis is invoked, then the queue
\* synthesis is invoked per till in the order of the payload, then the
\* response is sent; no synthesis is invoked for a sample that was not
\* persisted.
C22_IngestStepOrder ==
  [][\A p \in Procs :
       \* a request that arrives has written and synthesized nothing
       /\ (Free(p) /\ req'[p].op = "ingest" /\ req'[p] # req[p]) =>
            /\ samples' = samples
            /\ alerts' = alerts
            /\ ~req'[p].saved
            /\ req'[p].staffed = "no"
            /\ req'[p].attempted = <<>>
            /\ resp'[p].status # 201
       /\ (req[p].op = "ingest" /\ ~Free(p) /\ req'[p] # req[p]) =>
         LET r == req[p]
             n == req'[p]
         IN  \* the sample is written by the insert step and by no other
             /\ (samples' # samples) <=>
                  (r.pc = "insert" /\ n.saved /\ samples' = Append(samples, Stored(r.doc)))
             /\ n.saved => (r.saved \/ r.pc = "insert")
             \* staffing synthesis: once, after the write
             /\ (n.staffed # r.staffed) => (r.pc = "staffing" /\ r.saved /\ r.staffed = "no")
             /\ (alerts' # alerts) => (r.saved /\ r.pc \in {"staffing", "queue"})
             \* queue synthesis: after staffing, one till per step, in payload order
             /\ (n.attempted # r.attempted) =>
                  /\ r.pc = "queue"
                  /\ r.staffed = "ok"
                  /\ n.attempted = Append(r.attempted,
                                          r.payload.tillQueues[Len(r.attempted) + 1].tillNumber)
             \* the 201 response: last, after every till
             /\ (resp'[p] # resp[p] /\ resp'[p].status = 201) =>
                  /\ n.pc = "done"
                  /\ n.saved
                  /\ n.staffed = "ok"
                  /\ Len(n.attempted) = n.tills]_vars

\* a request with two tills was answered 201 after the write, the staffing
\* synthesis and the queue synthesis of till 2 and then of till 1
C22_Witness ==
  /\ req["p1"].op = "ingest"
  /\ req["p1"].pc = "done"
  /\ req["p1"].saved
  /\ req["p1"].staffed = "ok"
  /\ req["p1"].attempted = <<MaxTills, 1>>
  /\ resp["p1"].status = 201
  /\ OpenAlerts(alerts, "s1", "queue", MaxTills) # {}

C24_WindowSums ==
  [][\A p \in Procs :
       (/\ req[p].op = "window"
        /\ req[p].pc = "read"
        /\ req'[p].pc = "done") =>
         LET In == {i \in 1..Len(samples) :
                      /\ samples[i].storeId = req[p].storeId
                      /\ samples[i].dataType = "realtime"
                      /\ samples[i].timestamp >= now - req[p].minutes}
             st == resp'[p].stats
         IN  In # {} =>
               /\ resp'[p].status = 200
               /\ st.dataPoints = Cardinality(In)
               /\ st.totalEntries =
                    SumOver([i \in 1..Len(samples) |-> samples[i].entryCount], In)
               /\ st.totalExits =
                    SumOver([i \in 1..Len(samples) |-> samples[i].exitCount], In)
               /\ \E i \in In : st.maxOccupancy = samples[i].currentOccupancy
               /\ \A i \in In : samples[i].currentOccupancy <= st.maxOccupancy]_vars

\* a window result counts one sample and its entries, while a rollup document
\* with entries lies inside the window
C24_Witness ==
  /\ req["p1"].op = "window"
  /\ req["p1"].pc = "done"
  /\ resp["p1"].stats.dataPoints = 1
  /\ resp["p1"].stats.totalExits > 0
  /\ \E i \in 1..Len(samples) :
       /\ samples[i].dataType = "hourly"
       /\ samples[i].entryCount > 0
       /\ samples[i].timestamp >= now - req["p1"].minutes
  /\ \E i \in 1..Len(samples) :
       /\ samples[i].dataType = "realtime"
       /\ resp["p1"].stats.totalEntries = samples[i].entryCount
       /\ resp["p1"].stats.totalExits = samples[i].exitCount

\* C25: calculateQueueMetrics returns totalQueue 0, avgWaitTime 0 and
\* activeTills 0 when the sample has no queue data, an empty till list, or
\* only tills that are inactive or in maintenance; it never divides by zero.
C25_NoActiveTillsZero ==
  \A p \in Procs :
    (req[p].op = "metrics" /\ req[p].pc = "done") =>
      LET t == req[p].payload.tillQueues
      IN  (\/ ~req[p].payload.hasQueueData
           \/ t = <<>>
           \/ \A i \in 1..Len(t) : t[i].status \in {"inactive", "maintenance"}) =>
            /\ resp[p].queueMetrics.totalQueue = 0
            /\ resp[p].queueMetrics.avgWaitTime = 0
            /\ resp[p].queueMetrics.activeTills = 0

\* the metrics of an inactive till and a till in maintenance, both with
\* people queueing, are all 0
C25_Witness ==
  /\ req["p1"].op = "metrics"
  /\ req["p1"].pc = "done"
  /\ req["p1"].payload.hasQueueData
  /\ req["p1"].payload.tillQueues =
       <<Till(1, 99, 99, "inactive"), Till(1, 3, 4, "maintenance")>>
  /\ resp["p1"].queueMetrics = NoMetrics

\* C26: when alert synthesis fails after the sample of an ingest request was
\* saved, the sample stays stored; when the caller then sends the same payload
\* again, at a later reading of the clock, a second sample is appended whose
\* occupancy adds the payload's entries and exits to the occupancy that
\* already holds them.
C26_NoRollbackRetryDoubles ==
  [][\A p \in Procs :
       /\ (/\ req[p].op = "ingest"
           /\ req[p].pc \in {"staffing", "queue"}
           /\ resp'[p] = IngestError) =>
            /\ req[p].saved
            /\ samples' = samples
            /\ samples[Len(samples)] = Stored(req[p].doc)
       /\ (/\ req[p].op = "ingest"
           /\ req[p].pc = "insert"
           /\ req'[p].saved
           /\ samples # <<>>
           /\ samples[Len(samples)].storeId = req[p].doc.storeId
           /\ samples[Len(samples)].entryCount = ToInt(req[p].payload.entryCount)
           /\ samples[Len(samples)].exitCount = ToInt(req[p].payload.exitCount)
           /\ samples[Len(samples)].timestamp < req[p].doc.timestamp) =>
            /\ Len(samples') = Len(samples) + 1
            /\ samples'[Len(samples')].currentOccupancy =
                 Max0(samples[Len(samples)].currentOccupancy
                      + ToInt(req[p].payload.entryCount)
                      - ToInt(req[p].payload.exitCount))]_vars

\* the staffing synthesis failed for a request and for its retry: no alert
\* exists, both samples are stored, and the second holds the one entry twice
C26_Witness ==
  /\ req["p1"].op = "ingest"
  /\ req["p1"].pc = "done"
  /\ req["p1"].staffed = "failed"
  /\ resp["p1"] = IngestError
  /\ alerts = <<>>
  /\ Len(samples) = 2
  /\ samples[1].timestamp < samples[2].timestamp
  /\ samples[1].currentOccupancy = 1
  /\ samples[2].currentOccupancy = 2

\* a store record without the fields an update may write
WithoutUpdatable(st) == [st EXCEPT !.storeName = ""]

\* C27: a store that has been marked inactive never becomes active again
\* through a store operation: no step leaves an active record where an
\* inactive one with the same storeId and owner was; the write of an update
\* changes nothing but the updatable fields and answers with success, also
\* when the store is inactive; a create request of the owner for the storeId
\* of an inactive store is rejected as already existing, without a write.
C27_InactiveStays ==
  [][/\ \A st \in stores :
          ~st.isActive =>
            /\ \E nx \in stores' : /\ nx.storeId = st.storeId
                                   /\ nx.owner = st.owner
            /\ \A nx \in stores' :
                 (nx.storeId = st.storeId /\ nx.owner = st.owner) =>
                   ~nx.isActive
     /\ \A p \in Procs :
          /\ (req[p].pc = "storeUpdate" /\ req'[p].pc = "done") =>
               /\ {WithoutUpdatable(st) : st \in stores'} =
                    {WithoutUpdatable(st) : st \in stores}
               /\ resp'[p] = Response(200, "Store updated successfully")
          /\ (/\ Free(p)
              /\ req'[p] # req[p]
              /\ req'[p].op = "updateStore"
              /\ req'[p].storeName # ""
              /\ FindStore(stores, req'[p].storeId, req'[p].caller) # {}
              /\ FindActiveStore(stores, req'[p].storeId, req'[p].caller) = {}) =>
               /\ req'[p].pc = "storeUpdate"
               /\ stores' = stores
          /\ (/\ Free(p)
              /\ req'[p] # req[p]
              /\ req'[p].op = "createStore"
              /\ FindStore(stores, req'[p].storeId, req'[p].caller) # {}
              /\ FindActiveStore(stores, req'[p].storeId, req'[p].caller) = {}) =>
               /\ req'[p].pc = "done"
               /\ resp'[p] = Response(400, "Store with this ID already exists")
               /\ stores' = stores]_vars

\* one handler renamed a store that was inactive when the request came in,
\* the other was refused to create it again; the store is still inactive
C27_Witness ==
  /\ req["p1"].op = "updateStore"
  /\ req["p1"].pc = "done"
  /\ req["p1"].class = "inactive"
  /\ resp["p1"] = Response(200, "Store updated successfully")
  /\ req["p2"].op = "createStore"
  /\ req["p2"].pc = "done"
  /\ req["p2"].class = "inactive"
  /\ req["p2"].caller = req["p1"].caller
  /\ req["p2"].storeId = req["p1"].storeId
  /\ resp["p2"] = Response(400, "Store with this ID already exists")
  /\ \E st \in stores : /\ st.storeId = req["p1"].storeId
                         /\ st.owner = req["p1"].caller
                         /\ st.storeName = "b"
                         /\ ~st.isActive

\* the samples saved before the j-th one, of its store, with a strictly
\* smaller timestamp
EarlierThan(j) ==
  {k \in 1..(j - 1) : /\ samples[k].storeId = samples[j].storeId
                      /\ samples[k].timestamp < samples[j].timestamp}

\* the occupancies the j-th sample can build on: that of a latest strictly
\* earlier sample, or 0 when there is none
BaseOccupancies(j) ==
  IF EarlierThan(j) = {} THEN {0}
  ELSE {samples[k].currentOccupancy :
          k \in {m \in EarlierThan(j) :
                   \A n \in EarlierThan(j) :
                     samples[n].timestamp <= samples[m].timestamp}}

\* C28: when two samples of one store have the same timestamp, the occupancy
\* of each is max(0, base + entryCount - exitCount), the base being the
\* occupancy of the latest sample with a strictly smaller timestamp (0 without
\* one); neither holds the counts of the other, whichever was saved first.
C28_EqualTimestampsIndependent ==
  \A i, j \in 1..Len(samples) :
    (/\ i # j
     /\ samples[i].storeId = samples[j].storeId
     /\ samples[i].timestamp = samples[j].timestamp) =>
       \E b \in BaseOccupancies(j) :
         samples[j].currentOccupancy =
           Max0(b + samples[j].entryCount - samples[j].exitCount)

\* after a sample that holds 1, two samples with one entry each are saved with
\* the same later timestamp: both hold 2, none holds 3
C28_Witness ==
  /\ Len(samples) = 3
  /\ samples[1].timestamp < samples[2].timestamp
  /\ samples[2].timestamp = samples[3].timestamp
  /\ samples[1].currentOccupancy = 1
  /\ samples[2].entryCount = 1
  /\ samples[3].entryCount = 1
  /\ samples[2].exitCount = 0
  /\ samples[3].exitCount = 0
  /\ samples[2].currentOccupancy = 2
  /\ samples[3].currentOccupancy = 2

\* C29: during ingest the queue synthesis is called once for every till of the
\* payload, in the payload's order and whatever the till's status, with the
\* till's queueLength, its tillNumber and avgWaitTime = avgServiceTime x
\* queueLength; the queueLength handed to the staffing synthesis is the sum
\* over the active tills, and its avgWaitTime the mean of queueLength x
\* avgServiceTime over the active tills, to the nearest hundredth (0 without
\* an active till).
C29_SynthesisArguments ==
  [][\A p \in Procs :
       (req[p].op = "ingest" /\ req'[p] # req[p]) =>
         LET t == req[p].payload.tillQueues
             I == ActiveIndices(t)
             n == Cardinality(I)
             k == Len(req[p].queueCalls) + 1
         IN  /\ (req[p].pc = "staffing" /\ req'[p].staffed = "ok") =>
                  LET a  == req'[p].alertData
                      ws == SumOver([i \in 1..Len(t) |->
                                       t[i].queueLength * t[i].avgServiceTime], I)
                      e  == 100 * ws - n * a.avgWaitTime
                  IN  /\ a.queueLength =
                           SumOver([i \in 1..Len(t) |-> t[i].queueLength], I)
                      /\ IF n = 0 THEN a.avgWaitTime = 0
                                  ELSE 2 * e <= n /\ -2 * e <= n
                      /\ req'[p].queueCalls = <<>>
             /\ (req[p].pc = "queue" /\ resp'[p] # IngestError) =>
                  /\ k <= Len(t)
                  /\ req'[p].queueCalls =
                       Append(req[p].queueCalls,
                              [queueLength |-> t[k].queueLength,
                               tillNumber  |-> t[k].tillNumber,
                               avgWaitTime |-> t[k].avgServiceTime * t[k].queueLength])
             /\ (req[p].pc \in {"staffing", "queue"} /\ resp'[p].status = 201) =>
                  Len(req'[p].queueCalls) = Len(t)]_vars

\* an ingest with people queueing at an inactive and at a maintenance till:
\* the staffing synthesis was handed an empty queue, the queue synthesis was
\* called for both tills, and both have their queue alert
C29_Witness ==
  /\ req["p1"].op = "ingest"
  /\ req["p1"].pc = "done"
  /\ resp["p1"].status = 201
  /\ req["p1"].alertData.queueLength = 0
  /\ req["p1"].alertData.avgWaitTime = 0
  /\ req["p1"].queueCalls =
       <<[queueLength |-> 12, tillNumber |-> 1, avgWaitTime |-> 36],
         [queueLength |-> 12, tillNumber |-> MaxTills, avgWaitTime |-> 24]>>
  /\ OpenAlerts(alerts, "s1", "staffing", 0) = {}
  /\ OpenAlerts(alerts, "s1", "queue", 1) # {}
  /\ OpenAlerts(alerts, "s1", "queue", MaxTills) # {}

====
